---- MODULE Spec2Model ----
(***************************************************************************)
(* Model of src/ddns.py: the CloudflareDDNS process.  One process, one     *)
(* thread of control.  The state is the process environment, the fields    *)
(* of the CloudflareDDNS object, the locals of run(), the provider's DNS   *)
(* record, and history variables that record what the current cycle of     *)
(* the loop has done so far.                                               *)
(***************************************************************************)
EXTENDS Integers, Sequences, FiniteSets, TLC

VARIABLES
    environ,        \* os.environ: the four keys read by __init__
    check_interval, \* self.check_interval (ddns.py:22)
    pc,             \* position of the process in __main__ / run()
    exit_code,      \* exit status of the process, meaningful when pc = "exited"
    exit_how,       \* "none" | "sys.exit" | "traceback" | "return"
    last_ip,        \* local last_ip of run() (ddns.py:111)
    current_ip,     \* local current_ip of run() (ddns.py:115)
    dns_record,     \* local dns_record of run() (ddns.py:127)
    cf_record,      \* the provider's A record for the name (None: no such record)
    verify_resp,    \* history: the response verify_token received
    ever_called,    \* history: the methods invoked so far in the process
    start_last_ip,  \* history: last_ip when the current cycle began
    calls,          \* history: the calls of the current cycle, in order
    sleeps,         \* history: the sleeps completed in the current cycle
    outcome,        \* history: the branch the current cycle has taken
    caught,         \* history: the handler of ddns.py:144 ran in this cycle
    same_after_fail, \* history: the previous cycle's update failed and this cycle
                    \* resolved the same IP as that cycle
    stable_ip       \* environment: None, or the IP the machine keeps from now on
                    \* while every request succeeds

vars == << environ, check_interval, pc, exit_code, exit_how, last_ip, current_ip,
           dns_record, cf_record, verify_resp, ever_called, start_last_ip, calls,
           sleeps, outcome, caught, same_after_fail, stable_ip >>

----------------------------------------------------------------------------
(* Bounds of the model *)

\* number of distinct public addresses the resolver and the provider can hold
NumAddrs == 2

\* length of the longest response text given to get_current_ip on its own
MaxTextLen == 6

----------------------------------------------------------------------------
(* Python values.  A str is a sequence of characters; None is its own value. *)

None == [t |-> "None", v |-> << >>]

Str(s) == [t |-> "str", v |-> s]

\* a dict with the keys `keys` among "id" and "content"; a missing key holds None
Dict(keys, id, content) == [t |-> "dict", keys |-> keys, id |-> id, content |-> content]

\* bool(x): None, "" and {} are falsy
Truthy(x) ==
    CASE x.t = "None" -> FALSE
      [] x.t = "str"  -> x.v # << >>
      [] x.t = "dict" -> x.keys # { }

\* mutant of AllSet: tests `is not None` instead of truthiness
AllSet_NotNone(xs) == \A i \in DOMAIN xs : xs[i] # None

\* all([a, b, c]) of ddns.py:26 and ddns.py:101
AllSet(xs) == \A i \in DOMAIN xs : Truthy(xs[i])

AddrChars == << "1", "2", "3", "4" >>

\* the addresses of the model, each a one-character string
Addrs == { << AddrChars[i] >> : i \in 1..NumAddrs }

----------------------------------------------------------------------------
(* int(os.getenv("CHECK_INTERVAL", "300")), ddns.py:22-24 *)

Digits == << "0", "1", "2", "3", "4", "5", "6", "7", "8", "9" >>

IsDigit(c) == \E i \in 1..10 : Digits[i] = c

DigitVal(c) == (CHOOSE i \in 1..10 : Digits[i] = c) - 1

RECURSIVE DecVal(_)
DecVal(s) == IF s = << >> THEN 0
             ELSE DecVal(SubSeq(s, 1, Len(s) - 1)) * 10 + DigitVal(s[Len(s)])

AllDigits(s) == s # << >> /\ \A i \in 1..Len(s) : IsDigit(s[i])

\* int(s): an optional sign followed by decimal digits, else ValueError
PyInt(s) ==
    IF AllDigits(s) THEN [ok |-> TRUE, val |-> DecVal(s)]
    ELSE IF s # << >> /\ s[1] = "-" /\ AllDigits(Tail(s))
         THEN [ok |-> TRUE, val |-> 0 - DecVal(Tail(s))]
    ELSE IF s # << >> /\ s[1] = "+" /\ AllDigits(Tail(s))
         THEN [ok |-> TRUE, val |-> DecVal(Tail(s))]
    ELSE [ok |-> FALSE, val |-> 0]

DefaultInterval == << "3", "0", "0" >>

EnvKeys == { "CF_API_TOKEN", "CF_ZONE_ID", "CF_RECORD_NAME", "CHECK_INTERVAL" }

\* os.getenv(key, default)
GetEnv(key, default) == IF environ[key] = None THEN default ELSE environ[key]

\* the values CHECK_INTERVAL is given in the model
IntervalTexts == { None,
                   Str(<< "3", "0", "0" >>), Str(<< "6", "0" >>), Str(<< "3", "0" >>),
                   Str(<< "0" >>), Str(<< "-", "1" >>), Str(<< "x" >>), Str(<< >>) }

\* the values an identity variable is given in the model: unset, empty, set
IdentityTexts == { None, Str(<< >>), Str(<< "k" >>) }

----------------------------------------------------------------------------
(* The fields of the object *)

api_token == environ["CF_API_TOKEN"]

zone_id == environ["CF_ZONE_ID"]

record_name == environ["CF_RECORD_NAME"]

----------------------------------------------------------------------------
(* HTTP responses.  kind "error": requests raised (connection, timeout, ...). *)
(* kind "http": a response with a status and a body; json.ok is FALSE when    *)
(* the body does not decode or lacks the key the caller reads.                *)

NetError == [kind |-> "error", status |-> 0, ok |-> FALSE, result |-> << >>, success |-> FALSE]

\* no request was made yet
NoResponse == [kind |-> "none", status |-> 0, ok |-> FALSE, result |-> << >>, success |-> FALSE]

Http(status, ok, result, success) ==
    [kind |-> "http", status |-> status, ok |-> ok, result |-> result, success |-> success]

\* response.raise_for_status() raises for 4xx and 5xx
RaisesForStatus(resp) == resp.status >= 400 /\ resp.status < 600

----------------------------------------------------------------------------
(* The provider: the A records of the zone that carry the configured name *)

RecordIds == { << "a" >>, << "b" >> }

\* the provider holds no record for the name, or one with an id and a content
ProviderRecords ==
    { None } \cup { Dict({ "id", "content" }, Str(i), Str(c)) : i \in RecordIds, c \in Addrs }

----------------------------------------------------------------------------
Init ==
    /\ environ \in { e \in [ EnvKeys -> IdentityTexts \cup IntervalTexts ] :
                        /\ e["CHECK_INTERVAL"] \in IntervalTexts
                        /\ \A k \in EnvKeys \ { "CHECK_INTERVAL" } : e[k] \in IdentityTexts }
    /\ check_interval = 0
    /\ pc = "init"
    /\ exit_code = 0
    /\ exit_how = "none"
    /\ last_ip = None
    /\ current_ip = None
    /\ dns_record = None
    /\ cf_record \in ProviderRecords
    /\ verify_resp = NoResponse
    /\ ever_called = { }
    /\ start_last_ip = None
    /\ calls = << >>
    /\ sleeps = << >>
    /\ outcome = "none"
    /\ caught = FALSE
    /\ same_after_fail = FALSE
    /\ stable_ip = None

----------------------------------------------------------------------------
(* Process exit *)

\* the process ends with status `code`; `how` says by which path
Exit(code, how) ==
    /\ pc' = "exited"
    /\ exit_code' = code
    /\ exit_how' = how

\* the locals of run() and the history of the loop are left alone
LoopUnchanged ==
    UNCHANGED << last_ip, current_ip, dns_record, cf_record, start_last_ip, calls,
                 sleeps, outcome, caught, same_after_fail, stable_ip >>

----------------------------------------------------------------------------
(* __main__ and CloudflareDDNS.__init__ *)

\* ddns.py:151 with ddns.py:17-36.  int() runs before the identity check; a
\* ValueError escapes __main__ and the interpreter exits with status 1.
Construct ==
    /\ pc = "init"
    /\ LET parsed == PyInt(GetEnv("CHECK_INTERVAL", Str(DefaultInterval)).v) IN
         IF ~parsed.ok
         THEN /\ Exit(1, "traceback")
              /\ UNCHANGED check_interval
         ELSE /\ check_interval' = parsed.val
              /\ IF ~AllSet(<< api_token, zone_id, record_name >>)
                 THEN Exit(1, "sys.exit")
                 ELSE /\ pc' = "run"
                      /\ UNCHANGED << exit_code, exit_how >>
    /\ UNCHANGED << environ, verify_resp, ever_called >>
    /\ LoopUnchanged

\* ddns.py:152 with ddns.py:99-103.  Returning from run() ends __main__: status 0.
RunEntry ==
    /\ pc = "run"
    /\ IF ~AllSet(<< api_token, zone_id, record_name >>)
       THEN Exit(0, "return")
       ELSE /\ pc' = "verify"
            /\ UNCHANGED << exit_code, exit_how >>
    /\ UNCHANGED << environ, check_interval, verify_resp, ever_called >>
    /\ LoopUnchanged

----------------------------------------------------------------------------
(* CloudflareDDNS.verify_token and the startup of run() *)

\* what the token-verify endpoint can answer
VerifyResponses == { NetError } \cup { Http(st, TRUE, << >>, TRUE) : st \in { 200, 401, 500 } }

\* mutant of verify_token: only a server error counts as a failed verification
verify_token_Lenient(resp) ==
    IF resp.kind = "error" THEN FALSE ELSE resp.status < 500

\* ddns.py:51-61
verify_token(resp) ==
    IF resp.kind = "error" THEN FALSE ELSE resp.status = 200

\* ddns.py:105-111
VerifyToken ==
    /\ pc = "verify"
    /\ \E resp \in VerifyResponses :
         /\ verify_resp' = resp
         /\ IF ~verify_token(resp)
            THEN /\ Exit(0, "return")
                 /\ UNCHANGED last_ip
            ELSE /\ pc' = "L115"
                 /\ last_ip' = None
                 /\ UNCHANGED << exit_code, exit_how >>
    /\ ever_called' = ever_called \cup { "verify_token" }
    /\ UNCHANGED << environ, check_interval, current_ip, dns_record, cf_record,
                    start_last_ip, calls, sleeps, outcome, caught, same_after_fail, stable_ip >>
----------------------------------------------------------------------------
(* str helpers used by get_current_ip *)

\* s.split(sep) for a one-character sep: the pieces between the separators
RECURSIVE Split(_, _)
Split(s, sep) ==
    IF \A i \in 1..Len(s) : s[i] # sep
    THEN << s >>
    ELSE LET i == CHOOSE k \in 1..Len(s) : s[k] = sep /\ \A j \in 1..(k - 1) : s[j] # sep
         IN  << SubSeq(s, 1, i - 1) >> \o Split(SubSeq(s, i + 1, Len(s)), sep)

\* s.splitlines() for texts whose only line boundary is "\n": no piece for
\* the empty text, none after a final line boundary
SplitLines(s) ==
    IF s = << >> THEN << >>
    ELSE LET parts == Split(s, "\n")
         IN  IF parts[Len(parts)] = << >> THEN SubSeq(parts, 1, Len(parts) - 1) ELSE parts

\* s.startswith(p)
StartsWith(s, p) == Len(s) >= Len(p) /\ SubSeq(s, 1, Len(p)) = p

IpPrefix == << "i", "p", "=" >>

\* the bodies the trace endpoint answers with in the model
TraceTexts ==
    { << >>, << "h", "=", "x" >>, << "i", "p" >>, IpPrefix, << "h", "=", "x", "\n" >> \o IpPrefix }
    \cup { IpPrefix \o a : a \in Addrs }
    \cup { << "f", "l", "=", "x", "\n" >> \o IpPrefix \o a \o << "\n", "t", "s", "=", "y", "\n" >> :
             a \in Addrs }
    \cup { IpPrefix \o a \o << "=" >> \o b : a \in Addrs, b \in Addrs }
    \cup { IpPrefix \o a \o << "\n" >> \o IpPrefix \o b : a \in Addrs, b \in Addrs }

TraceResponses ==
    { [kind |-> "error", text |-> << >>] } \cup { [kind |-> "http", text |-> t] : t \in TraceTexts }

\* what the trace endpoint answers now: anything, or the stable IP
TraceResponsesNow ==
    IF stable_ip = None THEN TraceResponses
    ELSE { [kind |-> "http", text |-> IpPrefix \o stable_ip.v] }

\* ddns.py:38-49: the piece between the first and the second "=" of the first
\* line that starts with "ip=", None when there is no such line or the
\* request raised
get_current_ip(resp) ==
    IF resp.kind = "error" THEN None
    ELSE LET lines == SplitLines(resp.text)
             hits  == { i \in 1..Len(lines) : StartsWith(lines[i], IpPrefix) }
         IN  IF hits = { } THEN None
             ELSE LET first == CHOOSE i \in hits : \A j \in hits : i <= j
                  IN  Str(Split(lines[first], "=")[2])

\* a call of the current cycle: the method, its arguments, what it returned
Call(fn, args, ret) == [fn |-> fn, args |-> args, ret |-> ret]

\* the values the calls of method fn returned in the current cycle
Rets(fn) == { calls[i].ret : i \in { j \in 1..Len(calls) : calls[j].fn = fn } }

Called(fn) == \E i \in 1..Len(calls) : calls[i].fn = fn

\* ddns.py:116
IpMissing(ip) == ~Truthy(ip)

\* mutant of IpUnchanged: the skip of ddns.py:122-125 is never taken
IpUnchanged_Never(ip, last) == FALSE

\* ddns.py:122
IpUnchanged(ip, last) == ip = last

\* ddns.py:113-125, up to the sleep or the record fetch that follows
ResolveIP ==
    /\ pc = "L115"
    /\ \E resp \in TraceResponsesNow :
         LET ip == get_current_ip(resp) IN
           /\ current_ip' = ip
           /\ calls' = << Call("get_current_ip", << >>, ip) >>
           /\ same_after_fail' = (FALSE \in Rets("update_dns_record") /\ ip = current_ip)
           /\ IF IpMissing(ip)
              THEN pc' = "L118" /\ outcome' = "no_ip"
              ELSE IF IpUnchanged(ip, last_ip)
                   THEN pc' = "L124" /\ outcome' = "unchanged"
                   ELSE pc' = "L127" /\ outcome' = "reconciling"
    /\ start_last_ip' = last_ip
    /\ sleeps' = << >>
    /\ caught' = FALSE
    /\ ever_called' = ever_called \cup { "get_current_ip" }
    /\ UNCHANGED << environ, check_interval, exit_code, exit_how, last_ip, dns_record,
                    cf_record, verify_resp, stable_ip >>
----------------------------------------------------------------------------
(* get_dns_record *)

EmptyDict == Dict({ }, None, None)

\* the "result" lists the provider can answer with while it holds `cf`: the
\* true list, and lists whose first object is empty or lacks a key
ResultLists(cf) ==
    IF cf = None
    THEN { << >>, << EmptyDict >> }
    ELSE { << cf >>, << cf, EmptyDict >>, << EmptyDict >>,
           << Dict({ "id" }, cf.id, None) >>, << Dict({ "content" }, None, cf.content) >> }

RecordResponses(cf) ==
    { NetError, Http(200, FALSE, << >>, FALSE) }
    \cup { Http(st, TRUE, << >>, FALSE) : st \in { 403, 500 } }
    \cup { Http(200, TRUE, r, TRUE) : r \in ResultLists(cf) }

\* what the records endpoint answers now: anything, or the provider's record
RecordResponsesNow ==
    IF stable_ip = None THEN RecordResponses(cf_record)
    ELSE { Http(200, TRUE, << cf_record >>, TRUE) }

\* ddns.py:63-76
get_dns_record(resp) ==
    IF resp.kind = "error" \/ RaisesForStatus(resp) \/ ~resp.ok THEN None
    ELSE IF resp.result = << >> THEN None ELSE resp.result[1]

\* ddns.py:128
RecordMissing(rec) == ~Truthy(rec)

\* mutant of ContentDiffers: the record is taken to be up to date whatever it holds
ContentDiffers_Never(rec, ip) == FALSE

\* mutant of ContentDiffers: the record is rewritten whatever it holds
ContentDiffers_Always(rec, ip) == TRUE

\* ddns.py:133, for a record that has the key "content"
ContentDiffers(rec, ip) == rec.content # ip

\* ddns.py:127-133 and 140-142.  dns_record["content"] raises KeyError when the
\* key is missing; the handler of ddns.py:144 catches it.
FetchRecord ==
    /\ pc = "L127"
    /\ \E resp \in RecordResponsesNow :
         LET rec == get_dns_record(resp) IN
           /\ dns_record' = rec
           /\ calls' = Append(calls, Call("get_dns_record", << >>, rec))
           /\ IF RecordMissing(rec)
              THEN /\ pc' = "L130" /\ outcome' = "no_record"
                   /\ UNCHANGED << last_ip, caught >>
              ELSE IF "content" \notin rec.keys
                   THEN /\ pc' = "L147" /\ outcome' = "exception"
                        /\ caught' = TRUE
                        /\ UNCHANGED last_ip
                   ELSE IF ContentDiffers(rec, current_ip)
                        THEN /\ pc' = "L135" /\ outcome' = "updating"
                             /\ UNCHANGED << last_ip, caught >>
                        ELSE /\ pc' = "L147" /\ outcome' = "uptodate"
                             /\ last_ip' = current_ip
                             /\ UNCHANGED caught
    /\ ever_called' = ever_called \cup { "get_dns_record" }
    /\ UNCHANGED << environ, check_interval, exit_code, exit_how, current_ip, cf_record,
                    verify_resp, start_last_ip, sleeps, same_after_fail, stable_ip >>

----------------------------------------------------------------------------
(* update_dns_record *)

\* what can happen to a PUT for record `record_id`: whether the provider
\* applied it, and what the caller gets back
UpdateOutcomes(record_id) ==
    { [applied |-> FALSE, resp |-> NetError],
      [applied |-> FALSE, resp |-> Http(200, TRUE, << >>, FALSE)] }
    \cup { [applied |-> FALSE, resp |-> Http(st, TRUE, << >>, FALSE)] : st \in { 403, 500 } }
    \cup IF cf_record.t = "dict" /\ cf_record.id = record_id
         THEN { [applied |-> TRUE, resp |-> Http(200, TRUE, << >>, TRUE)],
                [applied |-> TRUE, resp |-> Http(200, FALSE, << >>, FALSE)],
                [applied |-> TRUE, resp |-> NetError] }
         ELSE { [applied |-> FALSE, resp |-> Http(404, TRUE, << >>, FALSE)] }

\* ddns.py:78-97
update_dns_record(resp) ==
    IF resp.kind = "error" \/ RaisesForStatus(resp) \/ ~resp.ok THEN FALSE
    ELSE resp.success

\* the outcomes of a PUT now.  faithful: the caller is told success exactly
\* when the provider applied the update; with a stable IP every PUT is applied
\* and reported so
UpdateOutcomesNow(record_id, faithful) ==
    IF stable_ip # None
    THEN { o \in UpdateOutcomes(record_id) : o.applied /\ update_dns_record(o.resp) }
    ELSE IF faithful
         THEN { o \in UpdateOutcomes(record_id) : o.applied = update_dns_record(o.resp) }
         ELSE UpdateOutcomes(record_id)

\* mutant of LastIpAfterUpdate: the result of the update is ignored
LastIpAfterUpdate_Always(ok, ip, last) == ip

\* mutant of LastIpAfterUpdate: the assignment of ddns.py:137 is missing
LastIpAfterUpdate_Never(ok, ip, last) == last

\* ddns.py:135-139: last_ip after update_dns_record returned `ok`
LastIpAfterUpdate(ok, ip, last) == IF ok THEN ip ELSE last

\* ddns.py:135-139.  dns_record["id"] is evaluated before the call and raises
\* KeyError when the key is missing.
UpdateRecordIn(faithful) ==
    /\ pc = "L135"
    /\ IF "id" \notin dns_record.keys
       THEN /\ outcome' = "exception"
            /\ caught' = TRUE
            /\ UNCHANGED << last_ip, cf_record, calls, ever_called >>
       ELSE /\ \E o \in UpdateOutcomesNow(dns_record.id, faithful) :
                 /\ cf_record' = IF o.applied
                                 THEN Dict({ "id", "content" }, cf_record.id, current_ip)
                                 ELSE cf_record
                 /\ LET ok == update_dns_record(o.resp) IN
                      /\ last_ip' = LastIpAfterUpdate(ok, current_ip, last_ip)
                      /\ outcome' = IF ok THEN "updated" ELSE "update_failed"
                      /\ calls' = Append(calls, Call("update_dns_record",
                                                     << dns_record.id, current_ip >>, ok))
            /\ ever_called' = ever_called \cup { "update_dns_record" }
            /\ UNCHANGED caught
    /\ pc' = "L147"
    /\ UNCHANGED << environ, check_interval, exit_code, exit_how, current_ip, dns_record,
                    verify_resp, start_last_ip, sleeps, same_after_fail, stable_ip >>

\* ddns.py:135-139 against a provider and a network that may do anything
UpdateRecord == UpdateRecordIn(FALSE)

\* ddns.py:135-139 when every PUT is reported success exactly when applied
UpdateRecordFaithful == UpdateRecordIn(TRUE)

----------------------------------------------------------------------------
(* time.sleep *)

\* the argument of the short sleeps
ShortInterval == 60

\* time.sleep(secs) raises ValueError for a negative argument
SleepRaises(secs) == secs < 0

\* a sleep inside the try block, followed by continue: ValueError is caught
\* by the handler of ddns.py:144, which falls through to ddns.py:147
SleepInTry(secs) ==
    /\ IF SleepRaises(secs)
       THEN /\ pc' = "L147"
            /\ caught' = TRUE
            /\ UNCHANGED sleeps
       ELSE /\ pc' = "L115"
            /\ sleeps' = Append(sleeps, secs)
            /\ UNCHANGED caught
    /\ UNCHANGED << environ, check_interval, exit_code, exit_how, last_ip, current_ip,
                    dns_record, cf_record, verify_resp, ever_called, start_last_ip, calls,
                    outcome, same_after_fail, stable_ip >>

\* mutant of Sleep118: the normal interval instead of the short one
Sleep118_Normal == pc = "L118" /\ SleepInTry(check_interval)

\* ddns.py:118-119
Sleep118 == pc = "L118" /\ SleepInTry(ShortInterval)

\* mutant of Sleep124: the continue of ddns.py:125 is missing
Sleep124_NoContinue ==
    /\ pc = "L124"
    /\ IF SleepRaises(check_interval)
       THEN /\ pc' = "L147"
            /\ caught' = TRUE
            /\ UNCHANGED sleeps
       ELSE /\ pc' = "L127"
            /\ sleeps' = Append(sleeps, check_interval)
            /\ UNCHANGED caught
    /\ UNCHANGED << environ, check_interval, exit_code, exit_how, last_ip, current_ip,
                    dns_record, cf_record, verify_resp, ever_called, start_last_ip, calls,
                    outcome, same_after_fail, stable_ip >>

\* ddns.py:124-125
Sleep124 == pc = "L124" /\ SleepInTry(check_interval)

\* mutant of Sleep130: the normal interval instead of the short one
Sleep130_Normal == pc = "L130" /\ SleepInTry(check_interval)

\* ddns.py:130-131
Sleep130 == pc = "L130" /\ SleepInTry(ShortInterval)

\* mutant of Sleep147: the short interval instead of the normal one
Sleep147_Short ==
    /\ pc = "L147"
    /\ pc' = "L115"
    /\ sleeps' = Append(sleeps, ShortInterval)
    /\ UNCHANGED << environ, check_interval, exit_code, exit_how, last_ip, current_ip,
                    dns_record, cf_record, verify_resp, ever_called, start_last_ip, calls,
                    outcome, caught, same_after_fail, stable_ip >>

\* ddns.py:147: outside the try block; ValueError escapes run() and __main__
Sleep147 ==
    /\ pc = "L147"
    /\ IF SleepRaises(check_interval)
       THEN /\ Exit(1, "traceback")
            /\ UNCHANGED sleeps
       ELSE /\ pc' = "L115"
            /\ sleeps' = Append(sleeps, check_interval)
            /\ UNCHANGED << exit_code, exit_how >>
    /\ UNCHANGED << environ, check_interval, last_ip, current_ip, dns_record, cf_record,
                    verify_resp, ever_called, start_last_ip, calls, outcome, caught,
                    same_after_fail, stable_ip >>

----------------------------------------------------------------------------
(* The provider's record is edited by someone else while the loop runs *)

LoopPcs == { "L115", "L118", "L124", "L127", "L130", "L135", "L147" }

ProviderChange ==
    /\ pc \in LoopPcs
    /\ cf_record' \in ProviderRecords \ { cf_record }
    /\ UNCHANGED << environ, check_interval, pc, exit_code, exit_how, last_ip, current_ip,
                    dns_record, verify_resp, ever_called, start_last_ip, calls, sleeps,
                    outcome, caught, same_after_fail, stable_ip >>

----------------------------------------------------------------------------
(* A peer that accepts a request and never answers *)

\* ddns.py:42, 54-57, 66-70, 88-92: no timeout= is passed, so requests waits
\* for the answer without limit
request_timeout == None

\* the positions that send a request, and the method that sends it
RequestPcs == { "verify", "L115", "L127", "L135" }

MethodAt(p) ==
    CASE p = "verify" -> "verify_token"
      [] p = "L115"   -> "get_current_ip"
      [] p = "L127"   -> "get_dns_record"
      [] p = "L135"   -> "update_dns_record"

BlockedAt(p) ==
    CASE p = "verify" -> "blocked_verify"
      [] p = "L115"   -> "blocked_L115"
      [] p = "L127"   -> "blocked_L127"
      [] p = "L135"   -> "blocked_L135"

BlockedPcs == { BlockedAt(p) : p \in RequestPcs }

\* the request of the current position is sent and the peer never answers:
\* without a timeout the call never returns.  (With one, requests raises and
\* the call returns as for NetError.)  A PUT may have been applied.
Block ==
    /\ pc \in RequestPcs
    /\ stable_ip = None
    /\ request_timeout = None
    /\ pc = "L135" => "id" \in dns_record.keys
    /\ pc' = BlockedAt(pc)
    /\ ever_called' = ever_called \cup { MethodAt(pc) }
    /\ outcome' = "blocked"
    /\ IF pc = "L115"
       THEN /\ start_last_ip' = last_ip
            /\ calls' = << >>
            /\ sleeps' = << >>
            /\ caught' = FALSE
            /\ same_after_fail' = FALSE
       ELSE UNCHANGED << start_last_ip, calls, sleeps, caught, same_after_fail >>
    /\ IF pc = "L135" /\ cf_record.t = "dict" /\ cf_record.id = dns_record.id
       THEN cf_record' \in { cf_record, Dict({ "id", "content" }, cf_record.id, current_ip) }
       ELSE UNCHANGED cf_record
    /\ UNCHANGED << environ, check_interval, exit_code, exit_how, last_ip, current_ip,
                    dns_record, verify_resp, stable_ip >>

----------------------------------------------------------------------------
(* The machine's IP stops changing and the network stops failing *)

\* between two cycles, with a record at the provider: from now on the resolver
\* reports v, and every request is answered and succeeds
Settle ==
    /\ pc = "L115"
    /\ stable_ip = None
    /\ cf_record # None
    /\ \E v \in Addrs : stable_ip' = Str(v)
    /\ UNCHANGED << environ, check_interval, pc, exit_code, exit_how, last_ip, current_ip,
                    dns_record, cf_record, verify_resp, ever_called, start_last_ip, calls,
                    sleeps, outcome, caught, same_after_fail >>

----------------------------------------------------------------------------
Next ==
    \/ Construct
    \/ RunEntry
    \/ VerifyToken
    \/ ResolveIP
    \/ FetchRecord
    \/ UpdateRecord
    \/ Sleep118
    \/ Sleep124
    \/ Sleep130
    \/ Sleep147
    \/ ProviderChange
    \/ Block

Spec == Init /\ [][Next]_vars

\* the provider's record is changed by this process alone, and every PUT is
\* reported success exactly when it was applied
NextSound ==
    \/ Construct
    \/ RunEntry
    \/ VerifyToken
    \/ ResolveIP
    \/ FetchRecord
    \/ UpdateRecordFaithful
    \/ Sleep118
    \/ Sleep124
    \/ Sleep130
    \/ Sleep147
    \/ Block

SpecSound == Init /\ [][NextSound]_vars

\* the steps of the process itself
ProcessStep ==
    \/ Construct
    \/ RunEntry
    \/ VerifyToken
    \/ ResolveIP
    \/ FetchRecord
    \/ UpdateRecord
    \/ Sleep118
    \/ Sleep124
    \/ Sleep130
    \/ Sleep147

\* a poll interval time.sleep accepts
InitConverge ==
    /\ Init
    /\ LET parsed == PyInt(GetEnv("CHECK_INTERVAL", Str(DefaultInterval)).v)
       IN  parsed.ok /\ parsed.val >= 0

NextConverge == ProcessStep \/ Settle

\* the record is changed by this process alone, every request is answered, and
\* at some point the IP may settle; the process, being the only thread of a
\* running interpreter, always takes its next step
SpecConverge == InitConverge /\ [][NextConverge]_vars /\ WF_vars(ProcessStep)

----------------------------------------------------------------------------
(* get_current_ip on its own: every short text over a small alphabet *)

ParseAlphabet == { "i", "p", "=", "1", "\n" }

ParseTexts == UNION { [ 1..n -> ParseAlphabet ] : n \in 0..MaxTextLen }

ParseInputs ==
    { [kind |-> "error", text |-> << >>] } \cup { [kind |-> "http", text |-> t] : t \in ParseTexts }

InitParse ==
    /\ environ = [ k \in EnvKeys |-> None ]
    /\ check_interval = 0
    /\ pc = "parse"
    /\ exit_code = 0
    /\ exit_how = "none"
    /\ last_ip = None
    /\ current_ip = None
    /\ dns_record = None
    /\ cf_record = None
    /\ verify_resp = NoResponse
    /\ ever_called = { }
    /\ start_last_ip = None
    /\ calls = << >>
    /\ sleeps = << >>
    /\ outcome = "none"
    /\ caught = FALSE
    /\ same_after_fail = FALSE
    /\ stable_ip = None

\* ddns.py:38-49 applied to one response; the call records the response and
\* what was returned
ParseTrace ==
    /\ pc = "parse"
    /\ \E resp \in ParseInputs :
         /\ current_ip' = get_current_ip(resp)
         /\ calls' = << Call("get_current_ip", << resp >>, get_current_ip(resp)) >>
    /\ pc' = "parsed"
    /\ UNCHANGED << environ, check_interval, exit_code, exit_how, last_ip, dns_record,
                    cf_record, verify_resp, ever_called, start_last_ip, sleeps, outcome,
                    caught, same_after_fail, stable_ip >>

NextParse == ParseTrace

SpecParse == InitParse /\ [][NextParse]_vars

----------------------------------------------------------------------------
(* Vocabulary of the properties *)

LoopCalls == { "get_current_ip", "get_dns_record", "update_dns_record" }

\* a cycle of the loop has begun
InCycle == calls # << >>

\* what get_current_ip returned in the current cycle
ResolvedIp == calls[1].ret

\* the records get_dns_record returned in the current cycle that carry a content
FetchedContents ==
    { r.content : r \in { x \in Rets("get_dns_record") : x.t = "dict" /\ "content" \in x.keys } }

\* the current cycle has completed its sleep
CycleSlept == InCycle /\ pc = "L115"

IdentityKeys == { "CF_API_TOKEN", "CF_ZONE_ID", "CF_RECORD_NAME" }

IdentityMissing == \E k \in IdentityKeys : environ[k] = None \/ environ[k] = Str(<< >>)

VerificationFailed ==
    verify_resp.kind = "error" \/ (verify_resp.kind = "http" /\ verify_resp.status # 200)

----------------------------------------------------------------------------
(* Properties *)

\* C1: in a cycle whose resolved IP is present and equals the last_ip the
\* cycle began with, get_dns_record and update_dns_record are not called, and
\* the loop is at none of the positions that call them.
C1_UnchangedSkipsProvider ==
    (InCycle /\ Truthy(ResolvedIp) /\ ResolvedIp = start_last_ip)
        => /\ ~Called("get_dns_record")
           /\ ~Called("update_dns_record")
           /\ pc \notin { "L127", "L130", "L135" }

\* C1 witness: a cycle that resolved the cached IP has slept the poll interval.
C1_Witness ==
    /\ CycleSlept /\ Truthy(ResolvedIp) /\ ResolvedIp = start_last_ip
    /\ sleeps = << check_interval >>

\* C2: once update_dns_record has returned False in a cycle, last_ip is what it
\* was when the cycle began; and a cycle that resolves the same IP as the
\* preceding cycle, whose update failed, does not take the unchanged skip: it
\* is about to call get_dns_record, is inside the call, or has returned from it.
C2_FailedUpdateRetried ==
    /\ (FALSE \in Rets("update_dns_record")) => last_ip = start_last_ip
    /\ same_after_fail
         => /\ outcome # "unchanged"
            /\ pc \notin { "L118", "L124" }
            /\ pc \in { "L127", "blocked_L127" } \/ Called("get_dns_record")

\* C2 witness: the cycle after a failed update resolved the same IP and has
\* fetched the record again.
C2_Witness == same_after_fail /\ Called("get_dns_record") /\ last_ip = start_last_ip

\* C3: in a cycle where the fetched record's content differs from the resolved
\* IP and update_dns_record returned True, last_ip is the resolved IP from the
\* update until the cycle ends.
C3_SuccessfulUpdateCaches ==
    (/\ InCycle
     /\ \E c \in FetchedContents : c # ResolvedIp
     /\ TRUE \in Rets("update_dns_record"))
        => last_ip = ResolvedIp

\* C3 witness: starting without a cached IP, a cycle updated the record and
\* has slept.
C3_Witness ==
    /\ CycleSlept /\ start_last_ip = None
    /\ TRUE \in Rets("update_dns_record")
    /\ last_ip = ResolvedIp /\ sleeps = << check_interval >>

\* C4: in a cycle where the fetched record's content equals the resolved IP,
\* update_dns_record is not called and last_ip is the resolved IP from the
\* fetch until the cycle ends.
C4_UpToDateCaches ==
    (InCycle /\ \E c \in FetchedContents : c = ResolvedIp)
        => /\ ~Called("update_dns_record")
           /\ pc # "L135"
           /\ last_ip = ResolvedIp

\* C4 witness: a cycle that began with another cached IP found the record up
\* to date and has slept.
C4_Witness ==
    /\ CycleSlept /\ start_last_ip # None /\ start_last_ip # ResolvedIp
    /\ ResolvedIp \in FetchedContents
    /\ sleeps = << check_interval >>

\* C5: in a cycle where get_current_ip returned None (or an empty string),
\* last_ip is unchanged, get_current_ip is the only call, and the only sleep of
\* the cycle is the short one.
C5_NoIpShortSleep ==
    (InCycle /\ ~Truthy(ResolvedIp))
        => /\ last_ip = start_last_ip
           /\ Len(calls) = 1
           /\ \/ pc = "L118" /\ sleeps = << >>
              \/ pc = "L115" /\ sleeps = << ShortInterval >>

\* C5 witness: with a cached IP and a poll interval other than 60, a cycle
\* whose resolver returned None has slept.
C5_Witness ==
    /\ CycleSlept /\ ResolvedIp = None /\ start_last_ip # None
    /\ check_interval # ShortInterval /\ sleeps = << ShortInterval >>

\* C6: in a cycle where get_dns_record returned None (or an empty object),
\* last_ip is unchanged, update_dns_record is not called, and the only sleep of
\* the cycle is the short one.
C6_NoRecordShortSleep ==
    (\E r \in Rets("get_dns_record") : ~Truthy(r))
        => /\ last_ip = start_last_ip
           /\ ~Called("update_dns_record")
           /\ \/ pc = "L130" /\ sleeps = << >>
              \/ pc = "L115" /\ sleeps = << ShortInterval >>

\* C6 witness: with a cached IP and a poll interval other than 60, a cycle
\* whose fetch returned None has slept.
C6_Witness ==
    /\ CycleSlept /\ None \in Rets("get_dns_record") /\ start_last_ip # None
    /\ check_interval # ShortInterval /\ sleeps = << ShortInterval >>

\* C7: the loop is entered, and its methods are called, only after
\* verify_token received status 200; after a network error or any other status
\* the process has exited without a call of the loop.
C7_NoLoopWithoutVerification ==
    /\ (pc \in LoopPcs \/ ever_called \cap LoopCalls # { })
         => /\ "verify_token" \in ever_called
            /\ verify_resp.kind = "http" /\ verify_resp.status = 200
    /\ VerificationFailed
         => /\ pc = "exited"
            /\ ever_called \cap LoopCalls = { }
            /\ calls = << >>

\* C7 witness: the verify endpoint answered 401 and the process has exited.
C7_Witness ==
    /\ verify_resp.kind = "http" /\ verify_resp.status = 401
    /\ pc = "exited" /\ ever_called = { "verify_token" }

\* C8: when credential verification has failed and the process has exited, its
\* exit code is not zero.
C8_FailedVerificationExitsNonZero ==
    (VerificationFailed /\ pc = "exited") => exit_code # 0

\* C9: with an identity variable unset or empty, no method is ever called, the
\* process is before or after the constructor, and once exited its exit code is
\* not zero.
C9_MissingIdentityExits ==
    IdentityMissing
        => /\ ever_called = { }
           /\ verify_resp = NoResponse
           /\ pc \in { "init", "exited" }
           /\ pc = "exited" => exit_code # 0

\* C9 witness: CF_RECORD_NAME is empty, the rest is set, and the constructor
\* has called sys.exit(1).
C9_Witness ==
    /\ environ["CF_RECORD_NAME"] = Str(<< >>)
    /\ Truthy(environ["CF_API_TOKEN"]) /\ Truthy(environ["CF_ZONE_ID"])
    /\ pc = "exited" /\ exit_how = "sys.exit" /\ exit_code = 1

\* C10: once the loop has been entered the process never exits, and a cycle
\* whose handler caught an exception goes on to the normal sleep and a new
\* iteration.
C10_LoopNeverTerminates ==
    /\ ("get_current_ip" \in ever_called) => pc # "exited"
    /\ caught => \/ pc = "L147"
                 \/ pc = "L115" /\ sleeps = << check_interval >>

\* C11: in every cycle last_ip is either what it was when the cycle began, or
\* it is the cycle's resolved IP and get_dns_record returned a record whose
\* content equals that IP or update_dns_record returned True; it is unchanged
\* in a cycle whose resolver or fetch result was absent, whose IP was the
\* cached one, whose update failed, or whose handler caught an exception.
C11_LastIpChangesOnlyOnConfirmation ==
    InCycle
        => /\ \/ last_ip = start_last_ip
              \/ /\ last_ip = ResolvedIp
                 /\ \E r \in Rets("get_dns_record") : Truthy(r)
                 /\ ResolvedIp \in FetchedContents \/ TRUE \in Rets("update_dns_record")
           /\ ( \/ ~Truthy(ResolvedIp)
                \/ ResolvedIp = start_last_ip
                \/ \E r \in Rets("get_dns_record") : ~Truthy(r)
                \/ FALSE \in Rets("update_dns_record")
                \/ caught ) => last_ip = start_last_ip

\* C11 witness: a cycle that began with a cached IP has replaced it by the IP
\* it resolved, and has slept.
C11_Witness ==
    /\ CycleSlept /\ start_last_ip # None
    /\ last_ip # start_last_ip /\ last_ip = ResolvedIp

\* C12: once the poll interval is configured, the short retry interval is
\* strictly smaller than it.
C12_ShortIntervalIsShorter ==
    (pc \in LoopPcs) => ShortInterval < check_interval

\* C13: a cycle that called update_dns_record, found the record up to date,
\* resolved the cached IP or caught an exception is at a normal-interval sleep
\* or has completed exactly that sleep; a completed sleep other than the poll
\* interval is the short one and follows an absent resolver or fetch result.
C13_NormalSleepExceptAbsent ==
    InCycle
        => /\ ( \/ Called("update_dns_record")
                \/ ResolvedIp \in FetchedContents
                \/ Truthy(ResolvedIp) /\ ResolvedIp = start_last_ip
                \/ caught )
                => \/ pc \in { "L124", "L147", "exited" } /\ sleeps = << >>
                   \/ pc = "L115" /\ sleeps = << check_interval >>
           /\ (pc = "L115" /\ sleeps # << check_interval >>)
                => /\ sleeps = << ShortInterval >>
                   /\ \/ ~Truthy(ResolvedIp)
                      \/ \E r \in Rets("get_dns_record") : ~Truthy(r)

\* C13 witness: with a poll interval other than 60, a cycle whose update
\* failed has slept the poll interval.
C13_Witness ==
    /\ CycleSlept /\ FALSE \in Rets("update_dns_record")
    /\ check_interval # ShortInterval /\ sleeps = << check_interval >>

\* C14: the calls of a cycle are get_current_ip, then at most one
\* get_dns_record, then at most one update_dns_record; the update follows a
\* fetch that returned a record whose content differs from the resolved IP,
\* and its arguments are that record's id and the resolved IP.
C14_CallOrder ==
    InCycle
        => /\ Len(calls) <= 3
           /\ calls[1].fn = "get_current_ip"
           /\ Len(calls) >= 2 => /\ calls[2].fn = "get_dns_record"
                                 /\ Truthy(calls[1].ret)
           /\ Len(calls) = 3
                => /\ calls[3].fn = "update_dns_record"
                   /\ calls[2].ret.t = "dict"
                   /\ { "id", "content" } \subseteq calls[2].ret.keys
                   /\ calls[2].ret.content # calls[1].ret
                   /\ calls[3].args = << calls[2].ret.id, calls[1].ret >>

\* C14 witness: a cycle has made all three calls and has slept.
C14_Witness ==
    /\ CycleSlept /\ Len(calls) = 3
    /\ calls[3].args = << calls[2].ret.id, calls[1].ret >>

\* C15: a cycle completes at most one sleep; when the loop is about to resolve
\* the IP again the preceding cycle has completed exactly one, and while a
\* cycle is still before its sleep it has completed none.
C15_OneSleepPerCycle ==
    InCycle
        => /\ Len(sleeps) <= 1
           /\ pc = "L115" => Len(sleeps) = 1
           /\ pc \in LoopPcs \ { "L115" } => sleeps = << >>

\* C15 witness: a second cycle, started after the first one's sleep, has
\* completed its own single sleep.
C15_Witness ==
    /\ CycleSlept /\ start_last_ip # None /\ Len(sleeps) = 1
    /\ Called("get_dns_record")

\* C16: no network call waits without limit, so the process is never blocked
\* for ever inside a request.
C16_CallsAreBounded == pc \notin BlockedPcs

\* C17: for a response that was received, get_current_ip returns everything
\* that follows "ip=" on the first line that starts with "ip=", and None when
\* there is no such line or the request raised.
C17_ReturnsWholeRemainder ==
    (pc = "parsed")
        => LET resp  == calls[1].args[1]
               ret   == calls[1].ret
               lines == SplitLines(resp.text)
               hits  == { i \in 1..Len(lines) : StartsWith(lines[i], IpPrefix) }
           IN  IF resp.kind = "error" \/ hits = { }
               THEN ret = None
               ELSE LET line == lines[CHOOSE i \in hits : \A j \in hits : i <= j]
                    IN  ret = Str(SubSeq(line, Len(IpPrefix) + 1, Len(line)))

\* C18: when the record is changed by this process alone and every update is
\* reported success exactly when applied, then at every position of the loop
\* (its sleeps among them) a last_ip other than None is the content of the
\* provider's record.
C18_CacheSound ==
    (pc \in LoopPcs /\ last_ip # None)
        => cf_record.t = "dict" /\ cf_record.content = last_ip

\* C18 witness: a cycle replaced a cached IP by updating the record, has
\* slept, and the provider holds the new IP.
C18_Witness ==
    /\ CycleSlept /\ TRUE \in Rets("update_dns_record")
    /\ start_last_ip # None /\ last_ip # start_last_ip
    /\ cf_record.t = "dict" /\ cf_record.content = last_ip

\* the record and the cache both hold the stable IP
Converged ==
    cf_record.t = "dict" /\ cf_record.content = stable_ip /\ last_ip = stable_ip

\* C19: once the IP has settled and every request succeeds, the provider's
\* record and last_ip eventually both hold that IP; and from then on no step
\* leads to a get_dns_record or update_dns_record call.
C19_Converges ==
    /\ (stable_ip # None) ~> Converged
    /\ [][(stable_ip # None /\ Converged) => pc' \notin { "L127", "L135" }]_vars

====
